---- MODULE Spec2Model ----
(***************************************************************************)
(* BESS revenue aggregation (battalion-energy/power_markets_pipeline).     *)
(*                                                                         *)
(* The repository holds several scripts that accumulate the same ledger:   *)
(*   "corrected"  calculate_bess_complete_revenues_corrected.py            *)
(*   "final"      final_bess_revenue_analysis.py                           *)
(*   "logging"    run_bess_complete_analysis_with_logging.py               *)
(*   "complete"   run_bess_complete_analysis.py                            *)
(* One run of one script is one behaviour; the variable script says which. *)
(*                                                                         *)
(* Numbers.  A CSV cell is [ok, v]: ok says whether the text parses as a   *)
(* number, v is the number.  Money is exact: every accumulator holds an    *)
(* integer count of 1/Unit dollars, Unit = 12 * PriceDen, so that the      *)
(* 5/60 hour of a dispatch interval and the mean of up to MaxPriceRows     *)
(* prices are whole numbers.  A percentage is the exact fraction           *)
(* [num, den].  Floating-point rounding is not modelled.                   *)
(***************************************************************************)
EXTENDS Integers, Sequences, FiniteSets, TLC

\* ------------------------------------------------------------------ bounds
MaxDamRows == 2      \* rows of a generated DAM file
MaxScedRows == 7     \* rows of a generated SCED file
MaxPriceRows == 2    \* rows of a settlement-point price file
ChunkSize == 1       \* rows per chunk of pd.read_csv(..., chunksize=50000)
MaxYears == 2        \* the years of years_to_process that are run

\* ------------------------------------------------------- program constants
DefaultRTPrice == 50     \* rt_prices.get(sp, 50)
SampleChunkNum == 5      \* if chunk_num >= 5: break
SampleSCEDFiles == 10    \* sced_files[:10]
SampleSASMFiles == 20    \* sasm_files[:20]

\* years_to_process = [2022, 2023, 2024, 2025], cut to its first MaxYears years
years_to_process ==
    SubSeq(<<2022, 2023, 2024, 2025>>, 1, IF MaxYears < 4 THEN MaxYears ELSE 4)
Years == {years_to_process[i] : i \in DOMAIN years_to_process}

\* ------------------------------------------------------------- arithmetic
RECURSIVE Fact(_)
Fact(n) == IF n <= 1 THEN 1 ELSE n * Fact(n - 1)

PriceDen == Fact(MaxPriceRows)
\* (5/60): one twelfth of an hour
IntervalDen == 12
Unit == IntervalDen * PriceDen

RECURSIVE Sum(_)
Sum(s) == IF s = <<>> THEN 0 ELSE Head(s) + Sum(Tail(s))

Abs(x) == IF x < 0 THEN -x ELSE x

\* exact fractions num/den, den > 0, in lowest terms
RECURSIVE GCD(_, _)
GCD(a, b) == IF b = 0 THEN a ELSE GCD(b, a % b)
Frac(n, d) ==
    LET g == GCD(Abs(n), d) IN [num |-> n \div g, den |-> d \div g]
FracAdd(a, b) ==
    LET l == (a.den \div GCD(a.den, b.den)) * b.den
    IN Frac(a.num * (l \div a.den) + b.num * (l \div b.den), l)

\* ------------------------------------------------------------------ cells
Num(x) == [ok |-> TRUE, v |-> x]
NaN == [ok |-> FALSE, v |-> 0]

\* pd.to_numeric(x, errors='coerce'): text that is no number becomes NaN
to_numeric(c) == IF c.ok THEN Num(c.v) ELSE NaN
notna(c) == c.ok
fillna(c, d) == IF c.ok THEN c.v ELSE d

\* ------------------------------------------------------------- the ledger
ASKeys == <<"reg_up", "reg_down", "rrs", "ecrs", "non_spin">>

NewEntry ==
    [dam_energy |-> 0, rt_energy_arbitrage |-> 0, reg_up |-> 0, reg_down |-> 0,
     rrs |-> 0, ecrs |-> 0, non_spin |-> 0, dam_hours |-> 0, rt_intervals |-> 0,
     total_discharge_mwh |-> 0, total_charge_mwh |-> 0]

\* bess_resources = {row['Resource_Name']: row for ...}: a dict keeps the
\* position of a key's first insertion and the value of its last
RegNames(reg) == {reg[i].Resource_Name : i \in DOMAIN reg}
FirstIndex(reg, n) == CHOOSE i \in DOMAIN reg :
    /\ reg[i].Resource_Name = n
    /\ \A j \in DOMAIN reg : reg[j].Resource_Name = n => i <= j
LastIndex(reg, n) == CHOOSE i \in DOMAIN reg :
    /\ reg[i].Resource_Name = n
    /\ \A j \in DOMAIN reg : reg[j].Resource_Name = n => j <= i
\* a wrong variant: one key for every row of the registry file
DictKeys_EveryRow(reg) == [i \in DOMAIN reg |-> reg[i].Resource_Name]
DictKeys(reg) ==
    LET idx == SelectSeq([i \in DOMAIN reg |-> i],
                         LAMBDA i : FirstIndex(reg, reg[i].Resource_Name) = i)
    IN [k \in DOMAIN idx |-> reg[idx[k]].Resource_Name]
Settlement_Point(reg, n) == reg[LastIndex(reg, n)].Settlement_Point

\* ------------------------------------------------------------ input files
\* A file is [name, cols, rows]: name orders the files (sorted(glob)), cols are
\* the columns of its header, rows its records in file order.
PWRSTR == "PWRSTR"

MCPCCol(key) ==
    CASE key = "reg_up" -> "RegUp_MCPC"
      [] key = "reg_down" -> "RegDown_MCPC"
      [] key = "rrs" -> "RRS_MCPC"
      [] key = "ecrs" -> "ECRS_MCPC"
      [] key = "non_spin" -> "NonSpin_MCPC"

AwardedCols(key) ==
    CASE key = "reg_up" -> <<"RegUp_Awarded">>
      [] key = "reg_down" -> <<"RegDown_Awarded">>
      [] key = "rrs" -> <<"RRSPFR_Awarded", "RRSFFR_Awarded", "RRSUFR_Awarded">>
      [] key = "ecrs" -> <<"ECRSSD_Awarded">>
      [] key = "non_spin" -> <<"NonSpin_Awarded">>

\* sorted(DIR.glob(pattern)): the files in ascending name order
RECURSIVE sorted(_)
sorted(files) ==
    IF files = <<>> THEN <<>>
    ELSE LET i == CHOOSE i \in DOMAIN files :
                     \A j \in DOMAIN files : files[i].name <= files[j].name
         IN <<files[i]>> \o sorted(SubSeq(files, 1, i - 1) \o
                                   SubSeq(files, i + 1, Len(files)))

\* files[:n]
Take(s, n) == SubSeq(s, 1, IF Len(s) < n THEN Len(s) ELSE n)

\* a wrong variant: the rows of every resource type are kept
BessData_AllTypes(rows) == rows
\* df[df['Resource Type'] == 'PWRSTR']
BessData(rows) == SelectSeq(rows, LAMBDA r : r.Resource_Type = PWRSTR)

\* the keys of df.groupby(['Delivery Date', 'Hour Ending']), ascending
RECURSIVE SortedSeq(_)
SortedSeq(S) ==
    IF S = {} THEN <<>>
    ELSE LET m == CHOOSE m \in S : \A x \in S : m <= x
         IN <<m>> \o SortedSeq(S \ {m})
HourKeys(rows) == SortedSeq({rows[i].Hour_Ending : i \in DOMAIN rows})
HourGroup(rows, h) == SelectSeq(rows, LAMBDA r : r.Hour_Ending = h)

\* revenues[row['Resource Name']][key] += amounts[i], for the rows in revenues
Credit(rev, key, rows, amounts) ==
    [n \in DOMAIN rev |->
        [rev[n] EXCEPT ![key] = @ + Sum([i \in DOMAIN rows |->
            IF rows[i].Resource_Name = n THEN amounts[i] ELSE 0])]]

\* --------------------------------------- corrected: one DAM file (l. 76-180)
\* the award MW of one product in one row (l. 99, 114, 131-135, 151, 166)
AwardMW(row, key, cols) ==
    IF key = "rrs"
    THEN Sum([k \in DOMAIN AwardedCols(key) |->
                IF AwardedCols(key)[k] \in cols
                THEN fillna(to_numeric(row[AwardedCols(key)[k]]), 0) ELSE 0])
    ELSE fillna(to_numeric(row[AwardedCols(key)[1]]), 0)

\* regup_mcpc = pd.to_numeric(hour_group['RegUp MCPC'].iloc[0], ...)
GroupMCPC(hour_group, key) == to_numeric(hour_group[1][MCPCCol(key)])

\* a wrong variant: the price column is read without the "in columns" test,
\* so a file without it raises
ASStep_NoColumnTest(rev, file, h, key) ==
    IF MCPCCol(key) \notin file.cols THEN [rev |-> rev, err |-> TRUE]
    ELSE LET mcpc == GroupMCPC(HourGroup(file.rows, h), key)
             hour_bess == HourGroup(BessData(file.rows), h)
         IN IF ~(notna(mcpc) /\ mcpc.v > 0) THEN [rev |-> rev, err |-> FALSE]
            ELSE [rev |-> Credit(rev, key, hour_bess,
                            [i \in DOMAIN hour_bess |->
                               AwardMW(hour_bess[i], key, file.cols) * mcpc.v * Unit]),
                  err |-> FALSE]
\* one product of one hour group; err: the step raised (a missing award column)
ASStep(rev, file, h, key) ==
    IF MCPCCol(key) \notin file.cols THEN [rev |-> rev, err |-> FALSE]
    ELSE LET mcpc == GroupMCPC(HourGroup(file.rows, h), key)
             hour_bess == HourGroup(BessData(file.rows), h)
         IN IF ~(notna(mcpc) /\ mcpc.v > 0) THEN [rev |-> rev, err |-> FALSE]
            ELSE IF key # "rrs" /\ AwardedCols(key)[1] \notin file.cols
            THEN [rev |-> rev, err |-> TRUE]
            ELSE [rev |-> Credit(rev, key, hour_bess,
                            [i \in DOMAIN hour_bess |->
                               AwardMW(hour_bess[i], key, file.cols) * mcpc.v * Unit]),
                  err |-> FALSE]

\* the (hour, product) steps of the file, in the order the loops take them
ASSteps(file) ==
    LET hs == HourKeys(file.rows)
    IN [k \in 1..(Len(hs) * Len(ASKeys)) |->
          <<hs[((k - 1) \div Len(ASKeys)) + 1], ASKeys[((k - 1) % Len(ASKeys)) + 1]>>]

RECURSIVE ASFold(_, _, _)
ASFold(rev, file, steps) ==
    IF steps = <<>> THEN [rev |-> rev, err |-> FALSE]
    ELSE LET r == ASStep(rev, file, Head(steps)[1], Head(steps)[2])
         IN IF r.err THEN r ELSE ASFold(r.rev, file, Tail(steps))

\* bess_data['Energy_Revenue'] = Energy_MW * Energy_Price (l. 84-86)
Energy_Revenue(row) ==
    fillna(to_numeric(row.Awarded_Quantity), 0)
        * fillna(to_numeric(row.Energy_Settlement_Point_Price), 0) * Unit

\* Track DAM energy (l. 173-177)
TrackDAMEnergy(rev, bess_data) ==
    LET r1 == Credit(rev, "dam_energy", bess_data,
                     [i \in DOMAIN bess_data |-> Energy_Revenue(bess_data[i])])
    IN Credit(r1, "dam_hours", bess_data, [i \in DOMAIN bess_data |-> 1])

\* the try block of one DAM file; an exception leaves what was added before it
CorrectedDAMFile(rev, file) ==
    IF "Resource_Type" \notin file.cols THEN rev
    ELSE IF BessData(file.rows) = <<>> THEN rev
    ELSE IF {"Awarded_Quantity", "Energy_Settlement_Point_Price"} \ file.cols # {} THEN rev
    ELSE LET r == ASFold(rev, file, ASSteps(file))
         IN IF r.err THEN r.rev ELSE TrackDAMEnergy(r.rev, BessData(file.rows))

\* ------------------------------------ corrected: RT prices (l. 219-245)
\* rt_prices[sp] = np.mean(all the prices of sp), in 1/PriceDen dollars
PricesOf(rows, sp) ==
    LET mine == SelectSeq(rows, LAMBDA r : r.SettlementPointName = sp)
    IN [i \in DOMAIN mine |-> mine[i].SettlementPointPrice]
Mean(prices) == (Sum(prices) * PriceDen) \div Len(prices)
CorrectedRTPrices(price_file) ==
    IF ~price_file.exists THEN <<>>
    ELSE [sp \in {price_file.rows[i].SettlementPointName : i \in DOMAIN price_file.rows}
            |-> Mean(PricesOf(price_file.rows, sp))]

\* ------------------------------------ corrected: SCED files (l. 247-294)
NumChunks(file) == (Len(file.rows) + ChunkSize - 1) \div ChunkSize
\* chunk number k (from 0) of pd.read_csv(file, chunksize=...)
Chunk(file, k) ==
    SubSeq(file.rows, k * ChunkSize + 1,
           IF (k + 1) * ChunkSize < Len(file.rows)
           THEN (k + 1) * ChunkSize ELSE Len(file.rows))

\* rt_price = rt_prices.get(sp, 50), in 1/PriceDen dollars (l. 271-275)
RTPrice(reg, prices, name) ==
    IF name \in RegNames(reg)
    THEN LET sp == Settlement_Point(reg, name)
         IN IF sp \in DOMAIN prices THEN prices[sp] ELSE DefaultRTPrice * PriceDen
    ELSE DefaultRTPrice * PriceDen

Base_Point_MW(row) == fillna(to_numeric(row.Base_Point), 0)

\* a wrong variant: the interval taken for a whole hour
EnergyMWh_Hourly(base_mw) == base_mw * IntervalDen

\* energy_mwh = base_mw * (5/60), in twelfths of a MWh (l. 279)
EnergyMWh(base_mw) == (base_mw * 5 * IntervalDen) \div 60

\* a wrong variant: charging counted as revenue
EnergyRevenue_Unsigned(base_mw, rt_price) == Abs(base_mw) * rt_price

\* energy_revenue = energy_mwh * rt_price, in 1/Unit dollars (l. 280)
EnergyRevenue(base_mw, rt_price) == EnergyMWh(base_mw) * rt_price

\* a wrong variant: the charge tally takes the signed energy, without abs()
CorrectedSCEDRow_SignedCharge(rev, reg, prices, row) ==
    IF row.Resource_Name \notin DOMAIN rev THEN rev
    ELSE LET base_mw == Base_Point_MW(row)
             energy_mwh == EnergyMWh(base_mw)
             rt_price == RTPrice(reg, prices, row.Resource_Name)
         IN [rev EXCEPT ![row.Resource_Name] =
               [@ EXCEPT !.rt_energy_arbitrage = @ + EnergyRevenue(base_mw, rt_price),
                         !.rt_intervals = @ + 1,
                         !.total_discharge_mwh =
                             IF base_mw > 0 THEN @ + energy_mwh ELSE @,
                         !.total_charge_mwh =
                             IF base_mw > 0 THEN @ ELSE @ + energy_mwh]]

\* one row of bess_data.iterrows() (l. 266-288)
CorrectedSCEDRow(rev, reg, prices, row) ==
    IF row.Resource_Name \notin DOMAIN rev THEN rev
    ELSE LET base_mw == Base_Point_MW(row)
             energy_mwh == EnergyMWh(base_mw)
             rt_price == RTPrice(reg, prices, row.Resource_Name)
         IN [rev EXCEPT ![row.Resource_Name] =
               [@ EXCEPT !.rt_energy_arbitrage = @ + EnergyRevenue(base_mw, rt_price),
                         !.rt_intervals = @ + 1,
                         !.total_discharge_mwh =
                             IF base_mw > 0 THEN @ + energy_mwh ELSE @,
                         !.total_charge_mwh =
                             IF base_mw > 0 THEN @ ELSE @ + Abs(energy_mwh)]]

\* "for _, row in bess_data.iterrows()" over the rows of one chunk
RECURSIVE CorrectedSCEDRows(_, _, _, _)
CorrectedSCEDRows(rev, reg, prices, rows) ==
    IF rows = <<>> THEN rev
    ELSE CorrectedSCEDRows(CorrectedSCEDRow(rev, reg, prices, Head(rows)),
                           reg, prices, Tail(rows))

\* ------------------------------------ corrected: results (l. 296-319)
TotalAS(rev) == rev.reg_up + rev.reg_down + rev.rrs + rev.ecrs + rev.non_spin
\* a wrong variant: sum(rev.values()) over a dict that also holds the counters
Total_AllValues(rev) ==
    rev.dam_energy + rev.rt_energy_arbitrage + TotalAS(rev) + rev.dam_hours
        + rev.rt_intervals + rev.total_discharge_mwh + rev.total_charge_mwh
Total(rev) == rev.dam_energy + rev.rt_energy_arbitrage + TotalAS(rev)
\* a wrong variant: total >= 0
Included_NonNegative(total) == total >= 0
\* if total > 0: only resources with revenue are reported
Included(total) == total > 0
\* x / total * 100 if total > 0 else 0, as the exact fraction num/den
Pct(x, total) ==
    IF total > 0 THEN Frac(x * 100, total) ELSE Frac(0, 1)

CorrectedRow(name, year, rev) ==
    [BESS_Asset_Name |-> name, Year |-> year,
     RT_Revenue |-> rev.rt_energy_arbitrage, DA_Revenue |-> rev.dam_energy,
     Spin_Revenue |-> rev.rrs, NonSpin_Revenue |-> rev.non_spin,
     RegUp_Revenue |-> rev.reg_up, RegDown_Revenue |-> rev.reg_down,
     ECRS_Revenue |-> rev.ecrs,
     Total_Revenue |-> Total(rev), Total_AS_Revenue |-> TotalAS(rev),
     Energy_Pct |-> Pct(rev.dam_energy + rev.rt_energy_arbitrage, Total(rev)),
     AS_Pct |-> Pct(TotalAS(rev), Total(rev)),
     Discharge_MWh |-> rev.total_discharge_mwh, Charge_MWh |-> rev.total_charge_mwh]

\* for name, rev in revenues.items(): the dict's insertion order
CorrectedResults(keys, rev, year) ==
    LET kept == SelectSeq(keys, LAMBDA n : Included(Total(rev[n])))
    IN [k \in DOMAIN kept |-> CorrectedRow(kept[k], year, rev[kept[k]])]

\* ------------------- final: analyze_year_sample, the DAM sample file (l. 48-122)
FinalEntry ==
    [dam_energy |-> 0, rt_energy |-> 0, reg_up |-> 0, reg_down |-> 0, rrs |-> 0,
     ecrs |-> 0, non_spin |-> 0]

\* sample_file = dam_files[min(len(dam_files)//2, len(dam_files)-1)]
SampleFile(files) ==
    LET half == Len(files) \div 2
    IN files[(IF half < Len(files) - 1 THEN half ELSE Len(files) - 1) + 1]

\* mcpcs[service]: the first row of the hour group, NaN without the column
FinalMCPC(hour_group, key, cols) ==
    IF MCPCCol(key) \in cols THEN to_numeric(hour_group[1][MCPCCol(key)]) ELSE NaN

\* the award MW that passes the "notna(mw) and mw > 0" test, else 0 (l. 94-122)
FinalAwardMW(row, key, cols) ==
    IF key = "rrs"
    THEN LET rrs_total == Sum([k \in DOMAIN AwardedCols(key) |->
                 IF AwardedCols(key)[k] \in cols
                 THEN fillna(to_numeric(row[AwardedCols(key)[k]]), 0) ELSE 0])
         IN IF rrs_total > 0 THEN rrs_total ELSE 0
    ELSE IF key = "ecrs" /\ AwardedCols(key)[1] \notin cols THEN 0
    ELSE LET mw == to_numeric(row[AwardedCols(key)[1]])
         IN IF notna(mw) /\ mw.v > 0 THEN mw.v ELSE 0

\* energy_price = pd.to_numeric(hour_group[...].iloc[0]): the first row of the hour
FinalEnergyPrice(hour_group) == to_numeric(hour_group[1].Energy_Settlement_Point_Price)

FinalEnergyRevenue(row, hour_group) ==
    LET energy_mw == to_numeric(row.Awarded_Quantity)
        energy_price == FinalEnergyPrice(hour_group)
    IN IF notna(energy_mw) /\ notna(energy_price)
       THEN energy_mw.v * energy_price.v * Unit ELSE 0

FinalASRevenue(row, hour_group, key, cols) ==
    LET mw == FinalAwardMW(row, key, cols)
        mcpc == FinalMCPC(hour_group, key, cols)
    IN IF mw > 0 /\ notna(mcpc) THEN mw * mcpc.v * Unit ELSE 0

\* one storage row of one hour: the entry is created on the first row of a name
\* (l. 81-122); d is the dict as [rev, keys]
FinalDAMRow(d, row, hour_group, cols) ==
    LET name == row.Resource_Name
        had == name \in DOMAIN d.rev
        rev == IF had THEN d.rev ELSE d.rev @@ (name :> FinalEntry)
    IN [rev |-> [rev EXCEPT ![name] =
                   [dam_energy |-> @.dam_energy + FinalEnergyRevenue(row, hour_group),
                    rt_energy |-> @.rt_energy,
                    reg_up |-> @.reg_up + FinalASRevenue(row, hour_group, "reg_up", cols),
                    reg_down |-> @.reg_down + FinalASRevenue(row, hour_group, "reg_down", cols),
                    rrs |-> @.rrs + FinalASRevenue(row, hour_group, "rrs", cols),
                    ecrs |-> @.ecrs + FinalASRevenue(row, hour_group, "ecrs", cols),
                    non_spin |-> @.non_spin + FinalASRevenue(row, hour_group, "non_spin", cols)]],
        keys |-> IF had THEN d.keys ELSE Append(d.keys, name)]

RECURSIVE FinalDAMRows(_, _, _)
FinalDAMRows(d, rows, file) ==
    IF rows = <<>> THEN d
    ELSE FinalDAMRows(FinalDAMRow(d, Head(rows),
                                  HourGroup(file.rows, Head(rows).Hour_Ending), file.cols),
                      Tail(rows), file)

\* the storage rows in the order of "for (date, hour), hour_group in df.groupby"
RECURSIVE ByHour(_, _)
ByHour(rows, hours) ==
    IF hours = <<>> THEN <<>>
    ELSE HourGroup(rows, Head(hours)) \o ByHour(rows, Tail(hours))

\* nothing catches an exception in this script: a missing column ends the run
FinalDAMRaises(file) ==
    \/ "Resource_Type" \notin file.cols
    \/ /\ BessData(file.rows) # <<>>
       /\ {"Energy_Settlement_Point_Price", "Awarded_Quantity", "RegUp_Awarded",
           "RegDown_Awarded", "NonSpin_Awarded"} \ file.cols # {}

FinalDAMFile(d, file) ==
    FinalDAMRows(d, ByHour(BessData(file.rows), HourKeys(file.rows)), file)

\* one row of sced_bess.iterrows() (l. 144-153)
FinalSCEDRow(rev, reg, prices, row) ==
    LET name == row.Resource_Name
        base_mw == to_numeric(row.Base_Point)
    IN IF name \in DOMAIN rev /\ notna(base_mw) /\ base_mw.v # 0
       THEN [rev EXCEPT ![name].rt_energy =
                @ + EnergyRevenue(base_mw.v, RTPrice(reg, prices, name))]
       ELSE rev

\* total = sum(rev.values()) (l. 158)
FinalTotal(rev) ==
    rev.dam_energy + rev.rt_energy + rev.reg_up + rev.reg_down + rev.rrs + rev.ecrs
        + rev.non_spin

FinalRow(name, year, rev) ==
    [BESS_Asset_Name |-> name, Year |-> year,
     RT_Revenue |-> rev.rt_energy, DA_Revenue |-> rev.dam_energy,
     Spin_Revenue |-> rev.rrs, NonSpin_Revenue |-> rev.non_spin,
     RegUp_Revenue |-> rev.reg_up, RegDown_Revenue |-> rev.reg_down,
     ECRS_Revenue |-> rev.ecrs, Total_Revenue |-> FinalTotal(rev),
     Energy_Revenue |-> rev.dam_energy + rev.rt_energy, AS_Revenue |-> TotalAS(rev),
     Energy_Pct |-> Pct(rev.dam_energy + rev.rt_energy, FinalTotal(rev)),
     AS_Pct |-> Pct(TotalAS(rev), FinalTotal(rev))]

FinalResults(keys, rev, year) ==
    LET kept == SelectSeq(keys, LAMBDA n : FinalTotal(rev[n]) > 0)
    IN [k \in DOMAIN kept |-> FinalRow(kept[k], year, rev[kept[k]])]

\* --------------- logging: process_year of run_bess_complete_analysis_with_logging.py
LoggingEntry ==
    [rt_energy |-> 0, dam_energy |-> 0, reg_up |-> 0, reg_down |-> 0, spin |-> 0,
     non_spin |-> 0, ecrs |-> 0, records_processed |-> 0]

\* the revenue key of a product in these two scripts: RRS is kept as 'spin'
SpinKey(key) == IF key = "rrs" THEN "spin" ELSE key
\* as_services, in the dict's order, then RRS (l. 122-127, 147)
LoggingKeys == <<"reg_up", "reg_down", "ecrs", "non_spin", "rrs">>

\* price = pd.to_numeric(df[[price_col]].drop_duplicates()[price_col].iloc[0]):
\* the first price of the file (l. 132-134, 149-151)
FilePrice(file, key) == to_numeric(file.rows[1][MCPCCol(key)])

\* the columns of a product that the file has; RRS adds each of its columns
PresentCols(file, key) ==
    SelectSeq(AwardedCols(key), LAMBDA c : c \in file.cols)

LoggingAwardMW(row, key, file) ==
    Sum([k \in DOMAIN PresentCols(file, key) |->
           fillna(to_numeric(row[PresentCols(file, key)[k]]), 0)])

LoggingAS(rev, file, key) ==
    IF MCPCCol(key) \notin file.cols \/ PresentCols(file, key) = <<>> THEN rev
    ELSE LET price == FilePrice(file, key)
             bess == BessData(file.rows)
         IN IF ~(notna(price) /\ price.v > 0) THEN rev
            ELSE Credit(rev, SpinKey(key), bess,
                        [i \in DOMAIN bess |-> LoggingAwardMW(bess[i], key, file) * price.v * Unit])

RECURSIVE LoggingASFold(_, _, _)
LoggingASFold(rev, file, keys) ==
    IF keys = <<>> THEN rev
    ELSE LoggingASFold(LoggingAS(rev, file, Head(keys)), file, Tail(keys))

\* Energy revenue (l. 108-116)
LoggingEnergy(rev, file) ==
    IF {"Awarded_Quantity", "Energy_Settlement_Point_Price"} \ file.cols # {} THEN rev
    ELSE LET bess == BessData(file.rows)
             r1 == Credit(rev, "dam_energy", bess,
                          [i \in DOMAIN bess |-> Energy_Revenue(bess[i])])
         IN Credit(r1, "records_processed", bess, [i \in DOMAIN bess |-> 1])

\* the try block of one DAM file (l. 95-166)
LoggingDAMFile(rev, file) ==
    IF "Resource_Type" \notin file.cols THEN rev
    ELSE IF BessData(file.rows) = <<>> THEN rev
    ELSE LoggingASFold(LoggingEnergy(rev, file), file, LoggingKeys)

\* one chunk: per name, base_points.sum() * rt_prices[sp] * (5/60), only for a
\* settlement point that has a price (l. 198-215)
LoggingSCEDChunk(rev, reg, prices, rows) ==
    LET bess == BessData(rows)
    IN [n \in DOMAIN rev |->
          IF n \in RegNames(reg) /\ Settlement_Point(reg, n) \in DOMAIN prices
          THEN [rev[n] EXCEPT !.rt_energy = @ + EnergyRevenue(
                   Sum([i \in DOMAIN bess |->
                          IF bess[i].Resource_Name = n THEN Base_Point_MW(bess[i]) ELSE 0]),
                   prices[Settlement_Point(reg, n)])]
          ELSE rev[n]]

\* a wrong variant: sum(rev.values()), which takes records_processed for money
LoggingTotal_AllValues(rev) ==
    rev.rt_energy + rev.dam_energy + rev.spin + rev.non_spin + rev.reg_up
        + rev.reg_down + rev.ecrs + rev.records_processed
\* total = sum([rev[k] for k in [...]]) (l. 229)
LoggingTotal(rev) ==
    rev.rt_energy + rev.dam_energy + rev.spin + rev.non_spin + rev.reg_up
        + rev.reg_down + rev.ecrs

LoggingRow(name, year, rev, total) ==
    [BESS_Asset_Name |-> name, Year |-> year,
     RT_Revenue |-> rev.rt_energy, DA_Revenue |-> rev.dam_energy,
     Spin_Revenue |-> rev.spin, NonSpin_Revenue |-> rev.non_spin,
     RegUp_Revenue |-> rev.reg_up, RegDown_Revenue |-> rev.reg_down,
     ECRS_Revenue |-> rev.ecrs, Total_Revenue |-> total]

LoggingResults(keys, rev, year) ==
    LET kept == SelectSeq(keys, LAMBDA n : LoggingTotal(rev[n]) > 0)
    IN [k \in DOMAIN kept |-> LoggingRow(kept[k], year, rev[kept[k]], LoggingTotal(rev[kept[k]]))]

\* ------------------------ complete: process_year of run_bess_complete_analysis.py
CompleteEntry ==
    [rt_energy |-> 0, dam_energy |-> 0, reg_up |-> 0, reg_down |-> 0, spin |-> 0,
     non_spin |-> 0, ecrs |-> 0]
SampleDAMFiles == 5       \* dam_files[:5]
CompleteSCEDFiles == 2    \* sced_files[:2]
LoggingSCEDFiles == 5     \* sced_files[:5]

\* a product of two cells; Series.sum() skips the NaN products
NaNProduct(a, b) == IF notna(a) /\ notna(b) THEN a.v * b.v ELSE 0

\* dam_revenue (l. 69-75)
CompleteEnergy(rev, file) ==
    IF {"Awarded_Quantity", "Energy_Settlement_Point_Price"} \ file.cols # {} THEN rev
    ELSE LET bess == BessData(file.rows)
         IN Credit(rev, "dam_energy", bess,
                   [i \in DOMAIN bess |->
                      NaNProduct(to_numeric(bess[i].Awarded_Quantity),
                                 to_numeric(bess[i].Energy_Settlement_Point_Price)) * Unit])

\* award * the MCPC cell of the same row, column by column (l. 85-104)
CompleteAS(rev, file, key) ==
    IF MCPCCol(key) \notin file.cols THEN rev
    ELSE LET bess == BessData(file.rows)
             cols == PresentCols(file, key)
         IN Credit(rev, SpinKey(key), bess,
                   [i \in DOMAIN bess |->
                      Sum([k \in DOMAIN cols |->
                             NaNProduct(to_numeric(bess[i][cols[k]]),
                                        to_numeric(bess[i][MCPCCol(key)]))]) * Unit])

RECURSIVE CompleteASFold(_, _, _)
CompleteASFold(rev, file, keys) ==
    IF keys = <<>> THEN rev
    ELSE CompleteASFold(CompleteAS(rev, file, Head(keys)), file, Tail(keys))

\* the try block of one DAM file (l. 60-107)
CompleteDAMFile(rev, file) ==
    IF "Resource_Type" \notin file.cols THEN rev
    ELSE IF BessData(file.rows) = <<>> THEN rev
    ELSE CompleteASFold(CompleteEnergy(rev, file), file, LoggingKeys)

\* rt_prices[sp] = price: the last row of a settlement point wins (l. 118-121)
CompleteRTPrices(price_file) ==
    IF ~price_file.exists THEN <<>>
    ELSE [sp \in {price_file.rows[i].SettlementPointName : i \in DOMAIN price_file.rows}
            |-> LET mine == PricesOf(price_file.rows, sp) IN mine[Len(mine)] * PriceDen]

\* total = sum(rev.values()) (l. 149)
CompleteTotal(rev) ==
    rev.rt_energy + rev.dam_energy + rev.reg_up + rev.reg_down + rev.spin
        + rev.non_spin + rev.ecrs

\* if total > 0 (l. 150)
CompleteIncluded(total) == total > 0

CompleteResults(keys, rev, year) ==
    LET kept == SelectSeq(keys, LAMBDA n : CompleteIncluded(CompleteTotal(rev[n])))
    IN [k \in DOMAIN kept |-> LoggingRow(kept[k], year, rev[kept[k]], CompleteTotal(rev[kept[k]]))]

\* ----------------------------------------------------------- input data
\* The market-wide clearing prices of the two delivery hours of the model:
\* every row of an hour carries the same MCPC cells (spec, section 3).
HourMCPC(h) ==
    IF h = 1
    THEN [RegUp_MCPC |-> Num(8), RegDown_MCPC |-> Num(3), RRS_MCPC |-> Num(5),
          ECRS_MCPC |-> Num(2), NonSpin_MCPC |-> Num(4)]
    ELSE [RegUp_MCPC |-> Num(6), RegDown_MCPC |-> NaN, RRS_MCPC |-> Num(0),
          ECRS_MCPC |-> Num(-1), NonSpin_MCPC |-> Num(7)]

DamRow(name, type, h, qty, price, up, dn, pfr, ffr, ufr, ecrs, ns) ==
    [Resource_Name |-> name, Resource_Type |-> type, Hour_Ending |-> h,
     Awarded_Quantity |-> qty, Energy_Settlement_Point_Price |-> price,
     RegUp_Awarded |-> up, RegDown_Awarded |-> dn, RRSPFR_Awarded |-> pfr,
     RRSFFR_Awarded |-> ffr, RRSUFR_Awarded |-> ufr, ECRSSD_Awarded |-> ecrs,
     NonSpin_Awarded |-> ns] @@ HourMCPC(h)

Z == Num(0)
\* the day-ahead row of the end-to-end scenario (spec, section 8)
DamA == DamRow("R1", PWRSTR, 1, Num(10), Num(20), Num(5), Z, Z, Z, Z, Z, Z)
DamB == DamRow("R2", PWRSTR, 1, Num(4), Num(25), Z, Num(2), Num(1), Num(2), Z, Num(3), Num(1))
\* negative and unparseable awards
DamC == DamRow("R1", PWRSTR, 2, Num(3), Num(15), Num(-5), Num(2), Num(-2), Num(5), NaN, Num(1), NaN)
\* a storage resource that is not in the registry
DamD == DamRow("RX", PWRSTR, 1, Num(7), Num(30), Num(4), Z, Z, Num(1), Z, Z, Z)
\* a registered name on a row that is not battery storage
DamE == DamRow("R2", "GEN", 1, Num(50), Num(22), Num(9), Z, Z, Z, Z, Z, Z)
DamF == DamRow("R2", PWRSTR, 2, NaN, Num(18), Num(2), Z, Z, Z, Z, Z, Num(3))
\* a responsive-reserve award whose three sub-awards sum to less than zero
DamG == DamRow("R2", PWRSTR, 1, Z, Num(25), Z, Z, Num(-2), Z, Z, Z, Z)
DamRows == {DamA, DamB, DamC, DamD, DamE, DamF, DamG}

DamCols ==
    {"Resource_Name", "Resource_Type", "Hour_Ending", "Awarded_Quantity",
     "Energy_Settlement_Point_Price", "RegUp_Awarded", "RegDown_Awarded",
     "RRSPFR_Awarded", "RRSFFR_Awarded", "RRSUFR_Awarded", "ECRSSD_Awarded",
     "NonSpin_Awarded", "RegUp_MCPC", "RegDown_MCPC", "RRS_MCPC", "ECRS_MCPC",
     "NonSpin_MCPC"}
\* the headers met in the disclosure files: all columns; the files from before
\* ECRS existed; a file that carries NonSpin MCPC without NonSpin Awarded
DamHeaders ==
    {DamCols, DamCols \ {"ECRSSD_Awarded", "ECRS_MCPC"}, DamCols \ {"NonSpin_Awarded"}}

File(n, cols, rows) == [name |-> n, cols |-> cols, rows |-> rows]

SeqsUpTo(S, n) == UNION {[1..k -> S] : k \in 1..n}
\* one file of up to MaxDamRows rows, or two one-row files in either glob order
DamDirs ==
    {<<File(1, DamCols, rows)>> : rows \in SeqsUpTo(DamRows, MaxDamRows)}
    \cup {<<File(n, DamCols, <<r1>>), File(3 - n, DamCols, <<r2>>)>> :
             n \in 1..2, r1 \in DamRows, r2 \in DamRows}
DamHeaderDirs ==
    {<<File(1, cols, <<DamA, DamB>>)>> : cols \in DamHeaders}
    \cup {<<File(1, DamCols \ {"NonSpin_Awarded"}, <<DamA>>), File(2, DamCols, <<DamB>>)>>}
ScenarioDamDir == <<File(1, DamCols, <<DamA>>)>>

ScedRow(name, type, interval, base) ==
    [Resource_Name |-> name, Resource_Type |-> type, Interval |-> interval,
     Base_Point |-> base]
\* the two real-time intervals of the scenarios (spec, section 8)
ScedA == ScedRow("R1", PWRSTR, 1, Num(12))
ScedB == ScedRow("R1", PWRSTR, 2, Num(-8))
ScedC == ScedRow("R2", "GEN", 1, Num(20))
ScedD == ScedRow("R2", PWRSTR, 1, Num(6))
ScedE == ScedRow("RX", PWRSTR, 1, Num(5))
ScedF == ScedRow("R1", PWRSTR, 1, NaN)
ScedG == ScedRow("R2", PWRSTR, 2, Z)
ScedRows == {ScedA, ScedB, ScedC, ScedD, ScedE, ScedF, ScedG}
ScedCols == {"Resource_Name", "Resource_Type", "Interval", "Base_Point"}

\* a directory of three files, more than the two files run_bess_complete_analysis.py takes
ThreeScedFiles ==
    <<File(1, ScedCols, <<ScedA>>), File(2, ScedCols, <<ScedB>>), File(3, ScedCols, <<ScedD>>)>>
\* long files of storage and other rows; short files of every kind of row
LongScedDirs ==
    {<<File(1, ScedCols, rows)>> : rows \in SeqsUpTo({ScedA, ScedC}, MaxScedRows)}
ShortScedDirs ==
    {<<File(1, ScedCols, <<r>>)>> : r \in ScedRows}
    \cup {<<File(1, ScedCols, <<ScedA, ScedB>>)>>}
    \cup {<<File(1, ScedCols \ {"Base_Point"}, <<ScedA>>), File(2, ScedCols, <<ScedA>>)>>}
    \cup {ThreeScedFiles, <<ThreeScedFiles[3], ThreeScedFiles[1], ThreeScedFiles[2]>>}
ScenarioScedDir == <<File(1, ScedCols, <<ScedA>>)>>

PriceRow(sp, interval, price) ==
    [SettlementPointName |-> sp, Interval |-> interval, SettlementPointPrice |-> price]
PriceRows ==
    {PriceRow("SP1", 1, 30), PriceRow("SP1", 2, 25), PriceRow("SP2", 1, 40),
     PriceRow("SP1", 1, -10)}
NoPriceFile == [exists |-> FALSE, rows |-> <<>>]
PriceFiles ==
    {NoPriceFile} \cup
    {[exists |-> TRUE, rows |-> rows] : rows \in SeqsUpTo(PriceRows, MaxPriceRows)}
ScenarioPriceFile == [exists |-> TRUE, rows |-> <<PriceRow("SP1", 1, 30)>>]

Registry ==
    <<[Resource_Name |-> "R1", Settlement_Point |-> "SP1"],
      [Resource_Name |-> "R2", Settlement_Point |-> "SP2"],
      [Resource_Name |-> "R3", Settlement_Point |-> "SP3"]>>

ScenarioRegistry == <<[Resource_Name |-> "R1", Settlement_Point |-> "SP1"]>>
\* the registry in another file order, with a name listed twice, and a
\* source with a header and no row
Registries ==
    {Registry, ScenarioRegistry, <<>>,
     <<Registry[3], Registry[2], Registry[1]>>,
     <<Registry[2], [Resource_Name |-> "R1", Settlement_Point |-> "SP2"], Registry[1]>>}

\* the inputs of one year: nothing; the end-to-end scenario; the scenario with
\* a charging interval at its own price; another resource without a price;
\* a year of charging only; a year with awards of two resources in one file
YearInputs ==
    {[dam |-> <<>>, sced |-> <<>>, price |-> NoPriceFile],
     [dam |-> ScenarioDamDir, sced |-> ScenarioScedDir, price |-> ScenarioPriceFile],
     [dam |-> ScenarioDamDir, sced |-> <<File(1, ScedCols, <<ScedA, ScedB>>)>>,
      price |-> [exists |-> TRUE,
                 rows |-> <<PriceRow("SP1", 1, 30), PriceRow("SP1", 2, 25)>>]],
     [dam |-> <<File(1, DamCols, <<DamB>>)>>, sced |-> <<File(1, ScedCols, <<ScedD>>)>>,
      price |-> ScenarioPriceFile],
     [dam |-> <<>>, sced |-> <<File(1, ScedCols, <<ScedB>>)>>, price |-> ScenarioPriceFile],
     [dam |-> <<File(1, DamCols, <<DamA, DamB>>)>>, sced |-> <<>>, price |-> NoPriceFile]}

\* the inputs of the first year; the other years have no file
InYear1(x, none) == [y \in Years |-> IF y = years_to_process[1] THEN x ELSE none]

\* ------------------------------------------------------------------ state
VARIABLES
    script,          \* which script of the repository runs
    bess_resources,  \* the rows of bess_resources_master_list.csv, in file order
    DAM_DIR,         \* year -> the DAM files of the year, in glob order
    SASM_DIR,        \* year -> the SASM files of the year, in glob order
    SCED_DIR,        \* year -> the SCED files of the year, in glob order
    PRICE_DIR,       \* year -> the settlement point price file of the year
    pc,              \* where the run is
    year_i,          \* index into years_to_process
    file_i,          \* index of the next file of the current loop
    chunk_num,       \* chunk of the current SCED file
    row_i,           \* rows of the current chunk's bess_data already taken
    revenues,        \* name -> accumulators of the year being processed
    revenue_keys,    \* the keys of revenues in insertion order
    rt_prices,       \* settlement point -> price, in 1/PriceDen dollars
    all_results,     \* the rows of the years processed so far
    output,          \* the rows of the CSV file on disk, <<>> while there is none
    output_parquet   \* the rows of the Parquet file on disk, <<>> while there is none

vars == <<script, bess_resources, DAM_DIR, SASM_DIR, SCED_DIR, PRICE_DIR, pc,
          year_i, file_i, chunk_num, row_i, revenues, revenue_keys, rt_prices,
          all_results, output, output_parquet>>
inputs == <<script, bess_resources, DAM_DIR, SASM_DIR, SCED_DIR, PRICE_DIR>>

Scripts == {"corrected", "final", "logging", "complete"}
year == years_to_process[year_i]

\* a wrong variant: the glob pattern of the first period taken for every period
dam_files_FirstYear ==
    CASE script = "corrected" -> sorted(DAM_DIR[years_to_process[1]])
      [] script = "final" ->
           IF DAM_DIR[years_to_process[1]] = <<>> THEN <<>>
           ELSE <<SampleFile(sorted(DAM_DIR[years_to_process[1]]))>>
      [] script = "logging" -> DAM_DIR[years_to_process[1]]
      [] script = "complete" -> Take(DAM_DIR[years_to_process[1]], SampleDAMFiles)
\* the files each script takes from the year's directories
dam_files ==
    CASE script = "corrected" -> sorted(DAM_DIR[year])
      [] script = "final" ->
           IF DAM_DIR[year] = <<>> THEN <<>> ELSE <<SampleFile(sorted(DAM_DIR[year]))>>
      [] script = "logging" -> DAM_DIR[year]
      [] script = "complete" -> Take(DAM_DIR[year], SampleDAMFiles)
sasm_files == Take(sorted(SASM_DIR[year]), SampleSASMFiles)
sced_files ==
    CASE script = "corrected" -> Take(sorted(SCED_DIR[year]), SampleSCEDFiles)
      [] script = "final" -> Take(sorted(SCED_DIR[year]), 1)
      [] script = "logging" -> Take(SCED_DIR[year], LoggingSCEDFiles)
      [] script = "complete" -> Take(SCED_DIR[year], CompleteSCEDFiles)

\* the entry a script creates for every name of the registry
EntryOf(s) ==
    CASE s = "corrected" -> NewEntry
      [] s = "logging" -> LoggingEntry
      [] s = "complete" -> CompleteEntry

\* the scripts that return at once from a year without files
ReturnsEarly ==
    \/ script = "final" /\ DAM_DIR[year] = <<>>
    \/ script = "logging" /\ DAM_DIR[year] = <<>> /\ SCED_DIR[year] = <<>>

\* a wrong variant: no file loop has a try/except
Catches_Nothing(s) == FALSE
\* the scripts whose file loops run each file inside "try: ... except Exception"
\* (corrected l. 76-180, 254-294); final_bess_revenue_analysis.py has none
Catches(s) == s # "final"

\* the try block of one DAM file raises (corrected l. 77-177): a column that
\* is read without a test is missing
CorrectedDAMRaises(file) ==
    \/ "Resource_Type" \notin file.cols
    \/ /\ BessData(file.rows) # <<>>
       /\ \/ {"Awarded_Quantity", "Energy_Settlement_Point_Price"} \ file.cols # {}
          \/ ASFold(<<>>, file, ASSteps(file)).err
DAMRaises(file) ==
    CASE script = "corrected" -> CorrectedDAMRaises(file)
      [] script = "final" -> FinalDAMRaises(file)
      [] OTHER -> "Resource_Type" \notin file.cols

\* process_year(year) / analyze_year_sample(year): the revenue dict of the year
ProcessYear ==
    /\ pc = "process_year"
    /\ IF script = "final" \/ ReturnsEarly
       THEN revenues' = <<>> /\ revenue_keys' = <<>>
       ELSE /\ revenues' = [n \in RegNames(bess_resources) |-> EntryOf(script)]
            /\ revenue_keys' = DictKeys(bess_resources)
    /\ rt_prices' = <<>>
    /\ pc' = IF ReturnsEarly THEN "results" ELSE "dam"
    /\ file_i' = 1
    /\ UNCHANGED <<inputs, year_i, chunk_num, row_i, all_results, output, output_parquet>>

\* one DAM file: an iteration of the file loop, or the sample file of "final",
\* where an exception ends the run
DAMFile ==
    /\ pc = "dam"
    /\ file_i <= Len(dam_files)
    /\ LET file == dam_files[file_i]
       IN IF DAMRaises(file) /\ ~Catches(script)
          THEN pc' = "crashed" /\ UNCHANGED <<revenues, revenue_keys>>
          ELSE CASE script = "corrected" ->
                      /\ revenues' = CorrectedDAMFile(revenues, file)
                      /\ UNCHANGED <<revenue_keys, pc>>
                 [] script = "logging" ->
                      /\ revenues' = LoggingDAMFile(revenues, file)
                      /\ UNCHANGED <<revenue_keys, pc>>
                 [] script = "complete" ->
                      /\ revenues' = CompleteDAMFile(revenues, file)
                      /\ UNCHANGED <<revenue_keys, pc>>
                 [] script = "final" ->
                      LET d == FinalDAMFile([rev |-> revenues, keys |-> revenue_keys], file)
                      IN revenues' = d.rev /\ revenue_keys' = d.keys /\ pc' = pc
    /\ file_i' = file_i + 1
    /\ UNCHANGED <<inputs, year_i, chunk_num, row_i, rt_prices, all_results, output, output_parquet>>

DAMEnd ==
    /\ pc = "dam"
    /\ file_i > Len(dam_files)
    /\ pc' = IF script = "corrected" THEN "sasm" ELSE "prices"
    /\ file_i' = 1
    /\ UNCHANGED <<inputs, year_i, chunk_num, row_i, revenues, revenue_keys, rt_prices,
                   all_results, output, output_parquet>>

\* a wrong variant: the SASM awards are credited the way the DAM awards are
SASMFile_Credits ==
    /\ pc = "sasm"
    /\ file_i <= Len(sasm_files)
    /\ revenues' = CorrectedDAMFile(revenues, sasm_files[file_i])
    /\ file_i' = file_i + 1
    /\ UNCHANGED <<inputs, pc, year_i, chunk_num, row_i, revenue_keys, rt_prices,
                   all_results, output, output_parquet>>

\* corrected: one iteration of "for i, file in enumerate(sasm_files[:20])"
\* (l. 189-213): the body reads the file and adds nothing
SASMFile ==
    /\ pc = "sasm"
    /\ file_i <= Len(sasm_files)
    /\ file_i' = file_i + 1
    /\ UNCHANGED <<inputs, pc, year_i, chunk_num, row_i, revenues, revenue_keys, rt_prices,
                   all_results, output, output_parquet>>

SASMEnd ==
    /\ pc = "sasm"
    /\ file_i > Len(sasm_files)
    /\ pc' = "prices"
    /\ UNCHANGED <<inputs, year_i, file_i, chunk_num, row_i, revenues, revenue_keys,
                   rt_prices, all_results, output, output_parquet>>

\* Load RT prices: the mean of a settlement point, or its last row ("complete")
LoadRTPrices ==
    /\ pc = "prices"
    /\ rt_prices' = IF script = "complete" THEN CompleteRTPrices(PRICE_DIR[year])
                    ELSE CorrectedRTPrices(PRICE_DIR[year])
    /\ pc' = "sced"
    /\ file_i' = 1
    /\ chunk_num' = 0
    /\ row_i' = 0
    /\ UNCHANGED <<inputs, year_i, revenues, revenue_keys, all_results, output, output_parquet>>

sced_file == sced_files[file_i]
bess_data == BessData(Chunk(sced_file, chunk_num))
\* the rows of the chunk whose 'Base Point' the script reads
ReadsBasePoint(row) ==
    CASE script = "corrected" -> TRUE
      [] script = "final" -> row.Resource_Name \in DOMAIN revenues
      [] OTHER -> /\ row.Resource_Name \in DOMAIN revenues
                  /\ row.Resource_Name \in RegNames(bess_resources)
                  /\ Settlement_Point(bess_resources, row.Resource_Name) \in DOMAIN rt_prices
\* the chunk raises: chunk['Resource Type'] or a 'Base Point' that is read is missing
ChunkRaises ==
    \/ "Resource_Type" \notin sced_file.cols
    \/ /\ "Base_Point" \notin sced_file.cols
       /\ \E i \in DOMAIN bess_data : ReadsBasePoint(bess_data[i])
RowByRow == script \in {"corrected", "final"}

\* corrected, final: one row of "for _, row in bess_data.iterrows()"
SCEDRow ==
    /\ pc = "sced"
    /\ RowByRow
    /\ file_i <= Len(sced_files)
    /\ chunk_num < NumChunks(sced_file)
    /\ ~ChunkRaises
    /\ row_i < Len(bess_data)
    /\ revenues' =
         IF script = "corrected"
         THEN CorrectedSCEDRow(revenues, bess_resources, rt_prices, bess_data[row_i + 1])
         ELSE FinalSCEDRow(revenues, bess_resources, rt_prices, bess_data[row_i + 1])
    /\ row_i' = row_i + 1
    /\ UNCHANGED <<inputs, pc, year_i, file_i, chunk_num, revenue_keys, rt_prices,
                   all_results, output, output_parquet>>

\* corrected: "break" after a chunk with storage rows whose number is >= 5 (l. 290)
Breaks == script = "corrected" /\ bess_data # <<>> /\ chunk_num >= SampleChunkNum
\* final reads the first chunk only: pd.read_csv(sced_file, nrows=50000)
LastChunk == chunk_num + 1 >= NumChunks(sced_file) \/ script = "final"

\* corrected, final: the end of one chunk: "continue" for a chunk without
\* storage rows, "break", or the next chunk; an exception ends the file
\* (corrected) or the run (final)
SCEDChunkEnd ==
    /\ pc = "sced"
    /\ RowByRow
    /\ file_i <= Len(sced_files)
    /\ ChunkRaises \/ row_i = Len(bess_data)
    /\ IF ChunkRaises \/ Breaks \/ LastChunk
       THEN file_i' = file_i + 1 /\ chunk_num' = 0
       ELSE file_i' = file_i /\ chunk_num' = chunk_num + 1
    /\ row_i' = 0
    /\ pc' = IF ChunkRaises /\ ~Catches(script) THEN "crashed" ELSE pc
    /\ UNCHANGED <<inputs, year_i, revenues, revenue_keys, rt_prices, all_results, output, output_parquet>>

\* logging, complete: one chunk of a file, name by name; an exception ends the file
SCEDChunk ==
    /\ pc = "sced"
    /\ ~RowByRow
    /\ file_i <= Len(sced_files)
    /\ revenues' =
         IF ChunkRaises \/ NumChunks(sced_file) = 0 THEN revenues
         ELSE LoggingSCEDChunk(revenues, bess_resources, rt_prices,
                               Chunk(sced_file, chunk_num))
    /\ IF ChunkRaises \/ LastChunk
       THEN file_i' = file_i + 1 /\ chunk_num' = 0
       ELSE file_i' = file_i /\ chunk_num' = chunk_num + 1
    /\ pc' = IF ChunkRaises /\ ~Catches(script) THEN "crashed" ELSE pc
    /\ UNCHANGED <<inputs, year_i, row_i, revenue_keys, rt_prices, all_results, output, output_parquet>>

SCEDEnd ==
    /\ pc = "sced"
    /\ file_i > Len(sced_files)
    /\ pc' = "results"
    /\ UNCHANGED <<inputs, year_i, file_i, chunk_num, row_i, revenues, revenue_keys,
                   rt_prices, all_results, output, output_parquet>>

results ==
    CASE script = "corrected" -> CorrectedResults(revenue_keys, revenues, year)
      [] script = "final" -> FinalResults(revenue_keys, revenues, year)
      [] script = "logging" -> LoggingResults(revenue_keys, revenues, year)
      [] script = "complete" -> CompleteResults(revenue_keys, revenues, year)

\* Create results; all_results.extend(results); then the next year
CreateResults ==
    /\ pc = "results"
    /\ all_results' = all_results \o results
    /\ IF year_i < Len(years_to_process)
       THEN year_i' = year_i + 1 /\ pc' = "process_year"
       ELSE year_i' = year_i /\ pc' = "save"
    /\ UNCHANGED <<inputs, file_i, chunk_num, row_i, revenues, revenue_keys, rt_prices,
                   output, output_parquet>>

\* the scripts that write a Parquet file after the CSV file;
\* final_bess_revenue_analysis.py writes the CSV file only
WritesParquet == script # "final"

\* Save results: "if all_results:" df.to_csv(csv_path) writes the table
SaveResults ==
    /\ pc = "save"
    /\ output' = all_results
    /\ pc' = IF all_results # <<>> /\ WritesParquet THEN "save_parquet" ELSE "done"
    /\ UNCHANGED <<inputs, year_i, file_i, chunk_num, row_i, revenues, revenue_keys,
                   rt_prices, all_results, output_parquet>>

\* df.to_parquet(parquet_path): the second statement of the save block
SaveParquet ==
    /\ pc = "save_parquet"
    /\ output_parquet' = all_results
    /\ pc' = "done"
    /\ UNCHANGED <<inputs, year_i, file_i, chunk_num, row_i, revenues, revenue_keys,
                   rt_prices, all_results, output>>

\* the status the process ends with: no script calls sys.exit, so a run that
\* reaches its last line ends with 0 and an uncaught exception with 1
exit_status == IF pc = "crashed" THEN 1 ELSE 0

Next ==
    \/ ProcessYear
    \/ DAMFile
    \/ DAMEnd
    \/ SASMFile
    \/ SASMEnd
    \/ LoadRTPrices
    \/ SCEDRow
    \/ SCEDChunkEnd
    \/ SCEDChunk
    \/ SCEDEnd
    \/ CreateResults
    \/ SaveResults
    \/ SaveParquet

\* the inputs the model runs a script on
Inputs ==
    \/ /\ bess_resources = Registry
       /\ SASM_DIR = InYear1(<<File(1, DamCols, <<DamB>>)>>, <<>>)
       /\ \/ /\ DAM_DIR \in {InYear1(d, <<>>) : d \in DamDirs \cup DamHeaderDirs}
             /\ SCED_DIR = InYear1(ScenarioScedDir, <<>>)
             /\ PRICE_DIR = InYear1(ScenarioPriceFile, NoPriceFile)
          \/ /\ DAM_DIR = InYear1(ScenarioDamDir, <<>>)
             /\ SCED_DIR \in {InYear1(d, <<>>) : d \in LongScedDirs}
             /\ PRICE_DIR = InYear1(ScenarioPriceFile, NoPriceFile)
          \/ /\ DAM_DIR = InYear1(ScenarioDamDir, <<>>)
             /\ SCED_DIR \in {InYear1(d, <<>>) : d \in ShortScedDirs}
             /\ PRICE_DIR \in {InYear1(f, NoPriceFile) : f \in PriceFiles}
    \/ /\ bess_resources \in Registries
       /\ SASM_DIR = [y \in Years |-> <<>>]
       /\ \E in \in [Years -> YearInputs] :
             /\ DAM_DIR = [y \in Years |-> in[y].dam]
             /\ SCED_DIR = [y \in Years |-> in[y].sced]
             /\ PRICE_DIR = [y \in Years |-> in[y].price]

Init ==
    /\ script \in Scripts
    /\ Inputs
    /\ pc = "process_year"
    /\ year_i = 1
    /\ file_i = 1
    /\ chunk_num = 0
    /\ row_i = 0
    /\ revenues = <<>>
    /\ revenue_keys = <<>>
    /\ rt_prices = <<>>
    /\ all_results = <<>>
    /\ output = <<>>
    /\ output_parquet = <<>>

Spec == Init /\ [][Next]_vars

\* ================================================================= claims
RECURSIVE AllRows(_)
AllRows(files) == IF files = <<>> THEN <<>> ELSE Head(files).rows \o AllRows(Tail(files))

Year1 == years_to_process[1]
Corrected == script = "corrected"
RTFields == {"rt_energy_arbitrage", "rt_intervals", "total_discharge_mwh", "total_charge_mwh"}

\* C1: the final ledger of process_year does not depend on how the period's
\* SCED records are split into files and chunks: once the SCED files are
\* consumed, every real-time accumulator has the value the same code gives when
\* all the SCED records of the period arrive as one chunk.
C1_ChunkingIndependent ==
    (Corrected /\ pc = "results") =>
        LET one == CorrectedSCEDRows([n \in DOMAIN revenues |-> NewEntry], bess_resources,
                                     rt_prices, BessData(AllRows(SCED_DIR[year])))
        IN \A n \in DOMAIN revenues : \A f \in RTFields : revenues[n][f] = one[n][f]

ScenarioInput ==
    /\ bess_resources = ScenarioRegistry
    /\ DAM_DIR[Year1] = ScenarioDamDir
    /\ SCED_DIR[Year1] = ScenarioScedDir
    /\ PRICE_DIR[Year1] = ScenarioPriceFile
RowsOf(rows, name, y) ==
    SelectSeq(rows, LAMBDA r : r.BESS_Asset_Name = name /\ r.Year = y)

\* C2: end-to-end scenario: registry {R1 at SP1}, one day-ahead row (10 MW at
\* $20, RegUp 5 MW at $8), one real-time interval (+12 MW, SP1 at $30): the
\* finalized entry of R1 has dam_energy 200, reg_up 40, rt_energy_arbitrage 30,
\* total 270 and as_pct = 40/270*100.
C2_EndToEnd ==
    (Corrected /\ ScenarioInput /\ pc = "done") =>
        /\ Len(RowsOf(output, "R1", Year1)) = 1
        /\ LET r == RowsOf(output, "R1", Year1)[1]
           IN /\ r.DA_Revenue = 200 * Unit
              /\ r.RegUp_Revenue = 40 * Unit
              /\ r.RT_Revenue = 30 * Unit
              /\ r.Total_Revenue = 270 * Unit
              /\ r.AS_Pct = Frac(40 * 100, 270)
C2_Witness ==
    Corrected /\ ScenarioInput /\ pc = "done" /\ RowsOf(output, "R1", Year1) # <<>>

\* C3: a record whose resource identifier is not in the registry changes no
\* accumulator and creates no ledger entry: the ledger and the finalized rows
\* hold registered resources only.
C3_UnknownResourceSkipped ==
    /\ \A n \in DOMAIN revenues : n \in RegNames(bess_resources)
    /\ \A i \in DOMAIN all_results :
          all_results[i].BESS_Asset_Name \in RegNames(bess_resources)

\* the clearing price of the row's own delivery hour, as the row carries it;
\* no revenue is due without a positive price
OwnHourPrice(row, key) ==
    LET mcpc == to_numeric(row[MCPCCol(key)])
    IN IF notna(mcpc) /\ mcpc.v > 0 THEN mcpc.v ELSE 0
OwnHourRevenue(file, n, key) ==
    LET bess == BessData(file.rows)
    IN Sum([i \in DOMAIN bess |->
              IF bess[i].Resource_Name = n
              THEN LoggingAwardMW(bess[i], key, file) * OwnHourPrice(bess[i], key) * Unit
              ELSE 0])
\* C4: the AS revenue added for an award of delivery hour h uses the clearing
\* price of that product for that same hour h: one DAM file adds, for every
\* resource and product, the sum of award MW * price of the row's own hour
\* (run_bess_complete_analysis_with_logging.py).
C4_SameHourPrice ==
    [][(script = "logging" /\ pc = "dam" /\ file_i' = file_i + 1) =>
         \A n \in DOMAIN revenues : \A k \in DOMAIN ASKeys :
            revenues'[n][SpinKey(ASKeys[k])] - revenues[n][SpinKey(ASKeys[k])]
               = OwnHourRevenue(dam_files[file_i], n, ASKeys[k])]_vars

\* C5: a real-time record is priced at the clearing price of its resource's
\* settlement point for its own interval: when the price file quotes that
\* (settlement point, interval) once, the record adds base_mw * that price * (5/60).
QuotesOf(rows, sp, interval) ==
    SelectSeq(rows, LAMBDA q : q.SettlementPointName = sp /\ q.Interval = interval)
C5_OwnIntervalPrice ==
    [][(Corrected /\ pc = "sced" /\ row_i' = row_i + 1) =>
         LET row == bess_data[row_i + 1]
             n == row.Resource_Name
         IN n \in DOMAIN revenues =>
              LET quotes == QuotesOf(PRICE_DIR[year].rows,
                                     Settlement_Point(bess_resources, n), row.Interval)
              IN Len(quotes) = 1 =>
                   revenues'[n].rt_energy_arbitrage - revenues[n].rt_energy_arbitrage
                     = EnergyMWh(Base_Point_MW(row))
                         * quotes[1].SettlementPointPrice * PriceDen]_vars

OwnEnergyRevenue(file, n) ==
    LET bess == BessData(file.rows)
    IN Sum([i \in DOMAIN bess |->
              IF bess[i].Resource_Name = n THEN Energy_Revenue(bess[i]) ELSE 0])
\* C6: every day-ahead record of a registered storage resource adds its awarded
\* MW times the energy settlement price of that same resource and hour (the
\* price of its own row) to dam_energy: after the DAM file of
\* analyze_year_sample, dam_energy is the sum of these products.
C6_OwnEnergyPrice ==
    (script = "final" /\ pc = "prices") =>
        \A n \in DOMAIN revenues :
            n \in RegNames(bess_resources) =>
                revenues[n].dam_energy = OwnEnergyRevenue(dam_files[1], n)

\* C7: the AS award MW that is multiplied by a price is never negative: a
\* negative or unparseable raw award is coerced to zero first.
C7_AwardsNonNegative ==
    (Corrected /\ pc = "dam" /\ file_i <= Len(dam_files)) =>
        LET file == dam_files[file_i]
            rows == BessData(file.rows)
        IN \A i \in DOMAIN rows : \A k \in DOMAIN ASKeys :
              AwardMW(rows[i], ASKeys[k], file.cols) >= 0

\* C8: a processed real-time record with energy_mw > 0 at a price > 0 strictly
\* increases the resource's rt_energy_arbitrage; with energy_mw < 0 at a
\* price > 0 it strictly decreases it.
C8_SignConvention ==
    [][(Corrected /\ pc = "sced" /\ row_i' = row_i + 1) =>
         LET row == bess_data[row_i + 1]
             n == row.Resource_Name
             mw == Base_Point_MW(row)
             price == RTPrice(bess_resources, rt_prices, n)
         IN (n \in DOMAIN revenues /\ price > 0) =>
              /\ mw > 0 => revenues'[n].rt_energy_arbitrage > revenues[n].rt_energy_arbitrage
              /\ mw < 0 => revenues'[n].rt_energy_arbitrage < revenues[n].rt_energy_arbitrage]_vars
\* the charging interval has been processed at a positive price
C8_Witness ==
    /\ Corrected /\ pc = "sced" /\ file_i <= Len(sced_files) /\ row_i >= 1
    /\ bess_data[row_i] = ScedB
    /\ "R1" \in DOMAIN revenues
    /\ RTPrice(bess_resources, rt_prices, "R1") > 0
    /\ revenues["R1"].rt_energy_arbitrage < 0

HasPct == script \in {"corrected", "final"}
\* C9: in every finalized entry with total > 0, energy_pct is the share of
\* dam_energy + rt_energy_arbitrage, as_pct the share of total_as, and the two
\* add up to 100; in every finalized entry with total <= 0 both are 0.
C9_PercentInvariant ==
    HasPct =>
      \A i \in DOMAIN all_results :
        LET r == all_results[i]
            as == r.RegUp_Revenue + r.RegDown_Revenue + r.Spin_Revenue
                    + r.ECRS_Revenue + r.NonSpin_Revenue
        IN /\ r.Total_Revenue > 0 =>
                /\ FracAdd(r.Energy_Pct, r.AS_Pct) = Frac(100, 1)
                /\ r.Energy_Pct = Frac((r.DA_Revenue + r.RT_Revenue) * 100, r.Total_Revenue)
                /\ r.AS_Pct = Frac(as * 100, r.Total_Revenue)
           /\ r.Total_Revenue <= 0 => r.Energy_Pct = Frac(0, 1) /\ r.AS_Pct = Frac(0, 1)
\* an entry with both energy and AS revenue, and a negative real-time part
C9_Witness ==
    /\ HasPct
    /\ \E i \in DOMAIN all_results :
         /\ all_results[i].Total_Revenue > 0
         /\ all_results[i].RT_Revenue < 0
         /\ all_results[i].AS_Pct.num > 0

Revenues(r) ==
    {r.RT_Revenue, r.DA_Revenue, r.Spin_Revenue, r.NonSpin_Revenue, r.RegUp_Revenue,
     r.RegDown_Revenue, r.ECRS_Revenue}
\* C10: no row of the finalized output has every revenue accumulator at 0; a
\* registered resource without award and dispatch (R3 here) is absent from it.
C10_ZeroSuppressed ==
    \A i \in DOMAIN all_results :
       /\ Revenues(all_results[i]) # {0}
       /\ all_results[i].BESS_Asset_Name # "R3"
\* a finished run that reports some resource and has R3 in its registry
C10_Witness ==
    /\ pc = "done"
    /\ output # <<>>
    /\ "R3" \in RegNames(bess_resources)
    /\ \A i \in DOMAIN output : output[i].BESS_Asset_Name # "R3"

\* C11: a ledger entry with a negative total is kept in the finalized output,
\* with energy_pct = 0 and as_pct = 0; only an entry whose total is exactly 0
\* is dropped.
C11_NegativeTotalKept ==
    (Corrected /\ pc = "results") =>
        \A n \in DOMAIN revenues :
            Total(revenues[n]) # 0 =>
                \E i \in DOMAIN results :
                    /\ results[i].BESS_Asset_Name = n
                    /\ Total(revenues[n]) < 0 =>
                          /\ results[i].Energy_Pct = Frac(0, 1)
                          /\ results[i].AS_Pct = Frac(0, 1)

SevenComponents(r) ==
    r.DA_Revenue + r.RT_Revenue + r.RegUp_Revenue + r.RegDown_Revenue + r.Spin_Revenue
        + r.ECRS_Revenue + r.NonSpin_Revenue
FiveASComponents(r) ==
    r.RegUp_Revenue + r.RegDown_Revenue + r.Spin_Revenue + r.ECRS_Revenue
        + r.NonSpin_Revenue
\* C12: in every finalized row the total is the sum of the seven reported
\* revenue components and of nothing else (no record counter, no energy
\* tally), and total_as is the sum of the five AS components.
C12_TotalIsSumOfComponents ==
    \A i \in DOMAIN all_results :
        LET r == all_results[i]
        IN /\ r.Total_Revenue = SevenComponents(r)
           /\ Corrected => r.Total_AS_Revenue = FiveASComponents(r)
           /\ script = "final" => r.AS_Revenue = FiveASComponents(r)
\* finished runs whose reported entry also holds non-zero counters
C12_Witness ==
    /\ pc = "done"
    /\ script \in {"logging", "corrected"}
    /\ \E i \in DOMAIN output :
          /\ output[i].DA_Revenue > 0
          /\ output[i].RT_Revenue # 0
          /\ FiveASComponents(output[i]) > 0

\* the responsive-reserve accumulator of a script, 0 for a name without entry
RRSKey == IF script \in {"logging", "complete"} THEN "spin" ELSE "rrs"
RRSOf(rev, n) == IF n \in DOMAIN rev THEN rev[n][RRSKey] ELSE 0
\* (RRSPFR + RRSFFR + RRSUFR awarded MW) * the RRS clearing price of the row's
\* hour, over the storage rows of one name; a price that is no number adds nothing
RRSDue(file, n) ==
    LET bess == BessData(file.rows)
    IN Sum([i \in DOMAIN bess |->
              IF bess[i].Resource_Name = n
              THEN AwardMW(bess[i], "rrs", file.cols)
                      * fillna(to_numeric(bess[i].RRS_MCPC), 0) * Unit
              ELSE 0])
\* C13: for each day-ahead record the rrs accumulator increases by (RRSPFR +
\* RRSFFR + RRSUFR awarded MW) times the RRS clearing price of that hour, and
\* every variant of the accumulator (corrected, complete, final) adds this
\* same amount: one DAM file with all its columns adds the sum over its records.
C13_RRSSummedFirst ==
    [][(/\ script \in {"corrected", "complete", "final"}
        /\ pc = "dam" /\ pc' = "dam" /\ file_i' = file_i + 1
        /\ dam_files[file_i].cols = DamCols) =>
          \A n \in RegNames(bess_resources) :
             RRSOf(revenues', n) - RRSOf(revenues, n) = RRSDue(dam_files[file_i], n)]_vars

\* C14: when the price records hold more than one quote for the same
\* (settlement point, interval), the price used for a real-time record of that
\* key is the latest-encountered quote.
C14_LatestQuoteWins ==
    [][(Corrected /\ pc = "sced" /\ row_i' = row_i + 1) =>
         LET row == bess_data[row_i + 1]
             n == row.Resource_Name
         IN n \in DOMAIN revenues =>
              LET quotes == QuotesOf(PRICE_DIR[year].rows,
                                     Settlement_Point(bess_resources, n), row.Interval)
              IN Len(quotes) > 1 =>
                   revenues'[n].rt_energy_arbitrage - revenues[n].rt_energy_arbitrage
                     = EnergyMWh(Base_Point_MW(row))
                         * quotes[Len(quotes)].SettlementPointPrice * PriceDen]_vars

\* the price table in which the settlement point of n has a real quote at the
\* amount of the fallback price
QuotedAtDefault(n) ==
    rt_prices @@ (Settlement_Point(bess_resources, n) :> DefaultRTPrice * PriceDen)
\* C15: a real-time interval priced with the fallback price, because its
\* settlement point has no price, is counted: it leaves the run in a state
\* that differs from the state the same interval leaves when the settlement
\* point has a real quote of the same amount.
C15_FallbackCounted ==
    [][(script \in {"corrected", "final"} /\ pc = "sced" /\ row_i' = row_i + 1) =>
         LET row == bess_data[row_i + 1]
             n == row.Resource_Name
         IN (/\ n \in DOMAIN revenues
             /\ n \in RegNames(bess_resources)
             /\ Settlement_Point(bess_resources, n) \notin DOMAIN rt_prices
             /\ Base_Point_MW(row) # 0) =>
               revenues' #
                  IF Corrected
                  THEN CorrectedSCEDRow(revenues, bess_resources, QuotedAtDefault(n), row)
                  ELSE FinalSCEDRow(revenues, bess_resources, QuotedAtDefault(n), row)]_vars

RECURSIVE CorrectedDAMFiles(_, _)
CorrectedDAMFiles(rev, files) ==
    IF files = <<>> THEN rev
    ELSE CorrectedDAMFiles(CorrectedDAMFile(rev, Head(files)), Tail(files))
\* C16: an exception raised while one input file is read or processed never
\* stops process_year: the run does not crash, after the DAM loop every DAM
\* file of the period has been taken, the files after a failing one included,
\* the SCED loop ends past its last file, and a finished run has gone through
\* every period.
C16_FileErrorContained ==
    script \in {"corrected", "logging", "complete"} =>
        /\ pc # "crashed"
        /\ pc = "results" => file_i > Len(sced_files)
        /\ pc = "done" => year_i = Len(years_to_process)
        /\ (Corrected /\ pc = "sasm") =>
              revenues = CorrectedDAMFiles([n \in RegNames(bess_resources) |-> NewEntry],
                                           dam_files)
\* a finished run whose first DAM file raised and whose second file is reported
C16_Witness ==
    /\ Corrected /\ pc = "done"
    /\ Len(DAM_DIR[Year1]) = 2
    /\ CorrectedDAMRaises(sorted(DAM_DIR[Year1])[1])
    /\ RowsOf(output, "R2", Year1) # <<>>

\* C17: when the registry source is empty the load fails and the run aborts
\* before any period is processed: no step of any period is taken.
C17_RegistryLoadError ==
    bess_resources = <<>> => (pc = "process_year" /\ year_i = 1)

\* C18: the run ends with a non-zero exit status when no resource produced a
\* non-empty ledger in any requested period, and with exit status zero otherwise.
C18_ExitStatus ==
    (script \in {"corrected", "logging"} /\ pc = "done") =>
        (exit_status # 0 <=> output = <<>>)

resource_rank(n) ==
    CASE n = "R1" -> 1 [] n = "R2" -> 2 [] n = "R3" -> 3 [] OTHER -> 4
\* C19: the rows of the finalized output are in ascending (period,
\* resource_id) order, whatever the order of the registry source.
C19_OutputOrdered ==
    (Corrected /\ pc = "done") =>
        \A i, j \in DOMAIN output :
            i < j =>
               \/ output[i].Year < output[j].Year
               \/ /\ output[i].Year = output[j].Year
                  /\ resource_rank(output[i].BESS_Asset_Name)
                        <= resource_rank(output[j].BESS_Asset_Name)

\* C20: the finalized output holds at most one row for each (resource_id,
\* period) pair.
C20_OneRowPerResourcePeriod ==
    \A i, j \in DOMAIN all_results :
        (/\ all_results[i].BESS_Asset_Name = all_results[j].BESS_Asset_Name
         /\ all_results[i].Year = all_results[j].Year) => i = j
\* a finished run that reports a resource the registry source lists twice
C20_Witness ==
    /\ pc = "done"
    /\ \E i, j \in DOMAIN bess_resources :
          /\ i # j
          /\ bess_resources[i].Resource_Name = bess_resources[j].Resource_Name
          /\ RowsOf(output, bess_resources[i].Resource_Name, Year1) # <<>>

\* C21: a run that is interrupted at any point before it completes leaves no
\* output file: whenever an output file is on disk, the run has gone through
\* every requested period and has written the whole output.
C21_NoOutputBeforeCompletion ==
    script \in {"corrected", "logging"} =>
        ((output # <<>> \/ output_parquet # <<>>) => pc = "done")

\* one SCED file on its own, from chunk k on: a chunk without storage rows is
\* skipped, the file ends at an exception or after a chunk numbered >= 5
RECURSIVE IsolatedSCEDFile(_, _, _, _)
IsolatedSCEDFile(rev, prices, file, k) ==
    IF k >= NumChunks(file) \/ "Resource_Type" \notin file.cols THEN rev
    ELSE LET rows == BessData(Chunk(file, k))
         IN IF rows = <<>> THEN IsolatedSCEDFile(rev, prices, file, k + 1)
            ELSE IF "Base_Point" \notin file.cols THEN rev
            ELSE LET r == CorrectedSCEDRows(rev, bess_resources, prices, rows)
                 IN IF k >= SampleChunkNum THEN r
                    ELSE IsolatedSCEDFile(r, prices, file, k + 1)
RECURSIVE IsolatedSCEDFiles(_, _, _)
IsolatedSCEDFiles(rev, prices, files) ==
    IF files = <<>> THEN rev
    ELSE IsolatedSCEDFiles(IsolatedSCEDFile(rev, prices, Head(files), 0), prices,
                           Tail(files))
\* process_year(y) on a ledger map of its own, from the records and prices of
\* period y and the registry only
IsolatedLedger(y) ==
    LET rev0 == [n \in RegNames(bess_resources) |-> NewEntry]
        rev1 == CorrectedDAMFiles(rev0, sorted(DAM_DIR[y]))
    IN IsolatedSCEDFiles(rev1, CorrectedRTPrices(PRICE_DIR[y]),
                         Take(sorted(SCED_DIR[y]), SampleSCEDFiles))
IsolatedYear(y) == CorrectedResults(DictKeys(bess_resources), IsolatedLedger(y), y)
RECURSIVE Merged(_)
Merged(n) == IF n = 0 THEN <<>> ELSE Merged(n - 1) \o IsolatedYear(years_to_process[n])
\* C22: periods are independent: the table of the sequential run is the merge
\* of the tables that process_year gives for each period on its own ledger
\* map, from that period's records, prices and the registry only; every year
\* already finished has contributed exactly its own isolated table.
C22_PeriodsIndependent ==
    Corrected =>
        /\ pc \in {"save", "save_parquet", "done"} =>
              all_results = Merged(Len(years_to_process))
        /\ pc = "results" => all_results \o results = Merged(year_i)
\* a finished run with rows of two periods whose inputs differ
C22_Witness ==
    /\ Corrected /\ pc = "done"
    /\ DAM_DIR[years_to_process[1]] # DAM_DIR[years_to_process[2]]
    /\ \E i, j \in DOMAIN output :
          output[i].Year = years_to_process[1] /\ output[j].Year = years_to_process[2]

\* the name n has a record in rows, and none of them is tagged battery storage
OnlyOtherTypes(rows, n) ==
    /\ \E i \in DOMAIN rows : rows[i].Resource_Name = n
    /\ \A i \in DOMAIN rows : rows[i].Resource_Name = n => rows[i].Resource_Type # PWRSTR
NoStorageRecord(rows, n) ==
    \A i \in DOMAIN rows : rows[i].Resource_Name = n => rows[i].Resource_Type # PWRSTR
StorageOnly(file) ==
    [file EXCEPT !.rows = SelectSeq(file.rows, LAMBDA r : r.Resource_Type = PWRSTR)]
InYear == pc \in {"dam", "sasm", "prices", "sced", "results"}
NoPrice(file, row, key) == MCPCCol(key) \notin file.cols \/ ~row[MCPCCol(key)].ok
Unavailable(file, key) == \E i \in DOMAIN file.rows : NoPrice(file, file.rows[i], key)
AwardedSet(key) == {AwardedCols(key)[k] : k \in DOMAIN AwardedCols(key)}
\* the same file with the product's columns present, and every record without
\* a price given a price and an award of 0 MW for that product
ZeroAward(file, key) ==
    [name |-> file.name,
     cols |-> file.cols \cup {MCPCCol(key)} \cup AwardedSet(key),
     rows |-> [i \in DOMAIN file.rows |->
                 IF NoPrice(file, file.rows[i], key)
                 THEN [f \in DOMAIN file.rows[i] |->
                          IF f = MCPCCol(key) THEN Num(1)
                          ELSE IF f \in AwardedSet(key) THEN Z
                          ELSE file.rows[i][f]]
                 ELSE file.rows[i]]]
\* the columns a DAM file must have besides those of the product
OtherCols(key) ==
    DamCols \ ({MCPCCol(key)} \cup (IF key = "ecrs" THEN AwardedSet(key) ELSE {}))
\* C24: when the clearing price of one AS product is unavailable for an hour
\* (column missing or value not numeric), only that product's contribution for
\* that hour is skipped and no error is raised: the DAM file leaves the ledger
\* it would leave if the records of that hour had an award of 0 MW of that
\* product at an available price, so the other products, the other hours and
\* the day-ahead energy revenue are accumulated all the same.
C24_MissingPriceSkipsProduct ==
    [][(script \in {"corrected", "final"} /\ pc = "dam" /\ file_i' = file_i + 1) =>
         \A k \in DOMAIN ASKeys :
            LET file == dam_files[file_i]
                key == ASKeys[k]
            IN (Unavailable(file, key) /\ OtherCols(key) \subseteq file.cols) =>
                  /\ pc' = "dam"
                  /\ ~DAMRaises(file)
                  /\ IF Corrected
                     THEN revenues' = CorrectedDAMFile(revenues, ZeroAward(file, key))
                     ELSE revenues' = FinalDAMFile([rev |-> revenues, keys |-> revenue_keys],
                                                   ZeroAward(file, key)).rev]_vars
\* a file without the ECRS price column has been taken: R2, with an ECRS
\* award, has no ECRS revenue and has its other revenues
C24_Witness ==
    /\ Corrected /\ pc = "dam" /\ file_i = 2
    /\ "ECRS_MCPC" \notin dam_files[1].cols
    /\ "R2" \in DOMAIN revenues
    /\ revenues["R2"].ecrs = 0
    /\ revenues["R2"].non_spin > 0
    /\ revenues["R2"].dam_energy > 0

\* award MW * the clearing price found for the (product, hour) of the record,
\* over the storage records of one name with a non-zero award of the product
AwardTimesPrice(file, n, key) ==
    LET bess == BessData(file.rows)
    IN Sum([i \in DOMAIN bess |->
              LET price == GroupMCPC(HourGroup(file.rows, bess[i].Hour_Ending), key)
                  award == AwardMW(bess[i], key, file.cols)
              IN IF bess[i].Resource_Name = n /\ award # 0 /\ notna(price)
                 THEN award * price.v * Unit ELSE 0])
\* C25: for every AS product with a non-zero award in a day-ahead record and a
\* clearing price found for that (product, hour), exactly award_mw times that
\* price is added to the matching accumulator, whatever the sign or magnitude
\* of the price: one DAM file with all its columns adds the sum over its records.
C25_AwardTimesPrice ==
    [][(Corrected /\ pc = "dam" /\ file_i' = file_i + 1
          /\ dam_files[file_i].cols = DamCols) =>
         \A n \in DOMAIN revenues : \A k \in DOMAIN ASKeys :
            revenues'[n][ASKeys[k]] - revenues[n][ASKeys[k]]
               = AwardTimesPrice(dam_files[file_i], n, ASKeys[k])]_vars

\* C26: each processed real-time record with energy_mw > 0 adds
\* energy_mw*(5/60) to the resource's gross discharge tally and leaves the
\* charge tally unchanged; each with energy_mw < 0 adds |energy_mw|*(5/60) to
\* the charge tally and leaves the discharge tally unchanged; a record with
\* energy_mw = 0 changes neither; both tallies are always >= 0 (the tallies are
\* in 1/IntervalDen MWh).
C26_ChargeDischargeTallies ==
    /\ [](Corrected => \A n \in DOMAIN revenues :
             revenues[n].total_discharge_mwh >= 0 /\ revenues[n].total_charge_mwh >= 0)
    /\ [][(Corrected /\ pc = "sced" /\ row_i' = row_i + 1) =>
            LET row == bess_data[row_i + 1]
                n == row.Resource_Name
                mw == IF row.Base_Point.ok THEN row.Base_Point.v ELSE 0
                discharged == revenues'[n].total_discharge_mwh - revenues[n].total_discharge_mwh
                charged == revenues'[n].total_charge_mwh - revenues[n].total_charge_mwh
            IN n \in DOMAIN revenues =>
                 /\ mw > 0 => discharged * 60 = mw * 5 * IntervalDen /\ charged = 0
                 /\ mw < 0 => charged * 60 = (-mw) * 5 * IntervalDen /\ discharged = 0
                 /\ mw = 0 => charged = 0 /\ discharged = 0]_vars
\* R1 has been dispatched in both directions: +12 MW and -8 MW
C26_Witness ==
    /\ Corrected /\ pc = "results"
    /\ "R1" \in DOMAIN revenues
    /\ revenues["R1"].total_discharge_mwh = 12
    /\ revenues["R1"].total_charge_mwh = 8

\* run_bess_complete_analysis.py on the files of one period in a given
\* enumeration: the DAM loop, then every chunk of the SCED files taken
RECURSIVE CompleteDAMFiles(_, _)
CompleteDAMFiles(rev, files) ==
    IF files = <<>> THEN rev
    ELSE CompleteDAMFiles(CompleteDAMFile(rev, Head(files)), Tail(files))
RECURSIVE CompleteSCEDChunks(_, _, _, _)
CompleteSCEDChunks(rev, prices, file, k) ==
    IF k >= NumChunks(file) \/ "Resource_Type" \notin file.cols THEN rev
    ELSE LET rows == BessData(Chunk(file, k))
             read == \E i \in DOMAIN rows :
                        /\ rows[i].Resource_Name \in DOMAIN rev
                        /\ Settlement_Point(bess_resources, rows[i].Resource_Name)
                              \in DOMAIN prices
         IN IF "Base_Point" \notin file.cols /\ read THEN rev
            ELSE CompleteSCEDChunks(
                     LoggingSCEDChunk(rev, bess_resources, prices, Chunk(file, k)),
                     prices, file, k + 1)
RECURSIVE CompleteSCEDFold(_, _, _)
CompleteSCEDFold(rev, prices, files) ==
    IF files = <<>> THEN rev
    ELSE CompleteSCEDFold(CompleteSCEDChunks(rev, prices, Head(files), 0), prices,
                          Tail(files))
\* the ledger of the period when the directories enumerate their files in
\* name order
NameOrderLedger ==
    CompleteSCEDFold(
        CompleteDAMFiles([n \in RegNames(bess_resources) |-> CompleteEntry],
                         Take(sorted(DAM_DIR[year]), SampleDAMFiles)),
        CompleteRTPrices(PRICE_DIR[year]),
        Take(sorted(SCED_DIR[year]), CompleteSCEDFiles))
\* C27: two runs over the same set of input files produce the same ledger
\* whatever the order in which the file system enumerates the files: the
\* ledger of a period is the ledger of the run in which the directories
\* enumerate the same files in name order.
C27_EnumerationOrderIndependent ==
    (script = "complete" /\ pc = "results") => revenues = NameOrderLedger

\* the chunks of the current SCED file from which records have been accumulated
ChunksAccumulated ==
    {k \in 0..chunk_num :
        /\ k < NumChunks(sced_file)
        /\ BessData(Chunk(sced_file, k)) # <<>>
        /\ k < chunk_num \/ row_i > 0}
\* C28: for each SCED file, process_year accumulates real-time revenue and
\* interval counts from at most 5 chunks of that file, whatever the number of
\* chunks in the file and whichever chunks contain storage records.
C28_AtMostFiveChunks ==
    (Corrected /\ pc = "sced" /\ file_i <= Len(sced_files)) =>
        Cardinality(ChunksAccumulated) <= SampleChunkNum

\* C29: a DAM file whose processing raises an exception part-way contributes
\* nothing to any ledger: after the error is logged, every accumulator of
\* every resource has the value it had before that file was started.
C29_FailedFileContributesNothing ==
    [][(Corrected /\ pc = "dam" /\ file_i' = file_i + 1
          /\ CorrectedDAMRaises(dam_files[file_i])) =>
         revenues' = revenues]_vars

\* C30: processing the supplemental (SASM) award files of a period leaves
\* every accumulator of every ledger entry unchanged: no step of the SASM loop
\* changes the ledger, and the final ledger of process_year is the ledger
\* computed from the DAM, price and SCED files alone.
C30_SASMAddsNothing ==
    /\ [][(Corrected /\ pc = "sasm") => revenues' = revenues]_vars
    /\ [](Corrected /\ pc = "results" => revenues = IsolatedLedger(year))
\* the period had a SASM file with storage awards of R2 at positive prices,
\* and the accumulated year holds no AS revenue for R2
C30_Witness ==
    /\ Corrected /\ pc = "results"
    /\ SASM_DIR[year] # <<>>
    /\ \E i \in DOMAIN sasm_files[1].rows :
          /\ sasm_files[1].rows[i].Resource_Name = "R2"
          /\ sasm_files[1].rows[i].Resource_Type = PWRSTR
          /\ AwardMW(sasm_files[1].rows[i], "reg_down", sasm_files[1].cols) > 0
    /\ "R2" \in DOMAIN revenues
    /\ TotalAS(revenues["R2"]) = 0
    /\ revenues["R1"].dam_energy > 0

====
